---- MODULE Spec2Model ----
(***************************************************************************)
(* A model of the immersive board session manager (src/src/xr/WebXRBoard.ts)*)
(* and of the layer opacity animator (src/src/App.tsx, animateLayerOpacity).*)
(*                                                                         *)
(* The host is single threaded: every action below is one synchronous run  *)
(* of a handler up to its next await (or one host event).  Promises the    *)
(* host owns (a texture loader, requestSession, setSession, session.end)   *)
(* settle in separate actions, in any order.                               *)
(***************************************************************************)
EXTENDS Integers, FiniteSets, Sequences, TLC

\* ---------------------------------------------------------------- bounds
MaxLoaders == 4      \* loaders handed to queueTextureLoader in a run
FullLoaders == 2     \* loaders queued in a run of Spec
MaxSessions == 2     \* sessions the host grants in a run
MaxEnter == 2        \* enter() calls in a run
MaxDispose == 2      \* dispose() calls in a run
LiveLoaders == 2     \* loaders queued in a run of SpecLive
LiveEnter == 1       \* enter() calls in a run of SpecLive and SpecTeardown
TeardownLoaders == 1 \* loaders queued in a run of SpecTeardown
SerialLoaders == 1   \* loaders queued in a run of SpecSerial
SerialEnter == 2     \* enter() calls in a run of SpecSerial
MaxAnimCalls == 2    \* animateLayerOpacity calls in a run
MaxTime == 720       \* the clock stops here, ms
MaxSpan2 == 6        \* largest tileSpan of a composite tile request, in halves (3.0)
FallbackSpan2 == 4   \* the same for a request with a fallback layer (2.0)
MaxEras == 3         \* eras of a timeline
MaxFallbacks == 1    \* eras of a timeline that declare a fallback layer
MaxMaps == 2         \* maps made in a run
MaxMoveEnds == 2     \* moveend events in a run
EraLoaders == 3      \* loaders queued in a run of SpecEra
EraTime == 480       \* the clock of SpecEra stops here, ms
SyncLoaders == 3     \* loaders queued in a run of SpecSync
ZoomLoaders == 4     \* loaders queued in a run of SpecZoom
MaxDetect == 2       \* detectSupportedModes() calls in a run

Modes == {"immersive-ar", "immersive-vr"}

VARIABLES
  xrPresent,             \* navigator.xr is defined
  supported,             \* the modes the host supports
  pendingTextureLoader,  \* WebXRBoard.pendingTextureLoader (0 = null)
  currentTexture,        \* WebXRBoard.currentTexture (0 = null)
  currentSession,        \* WebXRBoard.currentSession (0 = null)
  loopOn,                \* renderer animation loop is set
  shown,                 \* renderer.domElement.style.display = 'block'
  disposedTex,           \* textures on which dispose() was called
  releaseCount,          \* texture -> dispose() calls on it
  loader,                \* loader id -> "idle" | "running" | "ok" | "failed"
  refreshResult,         \* loader id -> outcome of the refreshTexture() that ran it
  session,               \* session id -> [st, mode, listener]
  call,                  \* enter() call id -> [pc, mode, reqMode, sess, wait, failedAt]
  nextLoader, nextSession, nextCall,
  attached,              \* renderer.domElement is a child of its host element
  disposeCount,          \* dispose() calls so far
  uncaught,              \* errors that escaped a synchronous call or a detached promise
  \* history
  unrefreshed,           \* last loader queued with no refreshTexture() call since (0 = none)
  dropped,               \* loaders followed by another queue call with no refresh between
  refreshedOther,        \* a refreshTexture() call ran a loader other than the last queued
  startedIdle,           \* some loader was started while currentSession was null
  invocations,           \* loader id -> the times the loader was called
  justDisposed           \* the last operation was dispose()

VARIABLES
  mapLayers,             \* the layer ids map.getLayer finds
  opacity,               \* layer id -> its 'raster-opacity' paint property (x OpScale)
  animations,            \* the registry: layer id -> frame id (0 = no record)
  frames,                \* pending requestAnimationFrame callbacks (the step closures,
                         \* each with the map it writes to)
  now,                   \* the host clock, ms
  nextFrame,             \* next frame id requestAnimationFrame hands out
  animCalls,             \* animateLayerOpacity calls so far
  \* history
  lastTarget,            \* layer id -> clamped target of that call
  overlapped,            \* layer id -> the latest call came while an animation was in flight
  cancelled              \* <<frame id, layer id>> given to cancelAnimationFrame

animVars == <<mapLayers, opacity, animations, frames, now, nextFrame, animCalls,
              lastTarget, overlapped, cancelled>>

boardVars == <<xrPresent, supported, pendingTextureLoader, currentTexture,
               currentSession, loopOn, shown, disposedTex, releaseCount, loader, refreshResult,
               session, call, nextLoader, nextSession, nextCall, attached, disposeCount,
               uncaught, unrefreshed, dropped, refreshedOther, startedIdle, invocations,
               justDisposed>>

VARIABLES
  tlPc,                  \* the loadTileTexture call: "idle" | "loading" | "resolved" | "rejected"
  tlOpts,                \* its options
  cell,                  \* <<row, col>> -> [index of the url tried, settled]
  canvas,                \* <<dx, dy>> -> what the canvas shows in the block drawn there
  \* history
  fetched,               \* urls whose fetch was started
  attempts,              \* <<row, col>> -> the urls given to image.src, in order
  loaded,                \* urls whose image loaded
  failed                 \* urls whose image failed to load

tileVars == <<tlPc, tlOpts, cell, canvas, fetched, attempts, loaded, failed>>

VARIABLES
  timeline,              \* timeline.eras (<< >> = not loaded)
  selectedEraIndex,
  activeSpotId,          \* 0 = null
  isMobileViewport,
  isMapReady,
  mapRef,                \* mapRef.current: a map id (0 = null)
  mapLoaded,             \* the current map has fired its load event
  nextMap,
  moveendMap,            \* the map handleMoveEnd is registered on (0 = none)
  view,                  \* center and zoom of the current map
  oldSea,                \* fill-opacity and line-opacity of the coastline overlay
  \* history
  requests,              \* <<layer id, target>> of the calls of the last era effect
  lastQueued,            \* options of the last loader queued by the App
  moveends               \* moveend events so far

appVars == <<timeline, selectedEraIndex, activeSpotId, isMobileViewport, isMapReady,
             mapRef, mapLoaded, nextMap, moveendMap, view, oldSea, requests,
             lastQueued, moveends>>

VARIABLES
  probe,                 \* mode -> "idle" | "pending" | "true" | "false" | "error"
  detectPc,              \* detectSupportedModes(): "idle" | "pending" | "resolved" | "rejected"
  detected,              \* the modes it returned
  detectCalls

detectVars == <<probe, detectPc, detected, detectCalls>>

vars == <<boardVars, animVars, tileVars, appVars, detectVars>>
offBoardVars == <<animVars, tileVars, appVars, detectVars>>
offAnimVars == <<boardVars, tileVars, appVars, detectVars>>
offTileVars == <<boardVars, animVars, appVars, detectVars>>

LoaderIds == 1..MaxLoaders
SessionIds == 1..MaxSessions
CallIds == 1..MaxEnter

NoSession == [st |-> "none", mode |-> "none", listener |-> FALSE]
NoCall == [pc |-> "idle", mode |-> "none", reqMode |-> "none", sess |-> 0,
           wait |-> 0, failedAt |-> "none"]

\* the state after the constructor (lines 21-59): surface hidden, nothing bound
InitBoard ==
  /\ xrPresent \in BOOLEAN
  /\ supported \in (IF xrPresent THEN SUBSET Modes ELSE {{}})
  /\ pendingTextureLoader = 0
  /\ currentTexture = 0
  /\ currentSession = 0
  /\ loopOn = FALSE
  /\ shown = FALSE
  /\ disposedTex = {}
  /\ releaseCount = [l \in LoaderIds |-> 0]
  /\ loader = [l \in LoaderIds |-> "idle"]
  /\ refreshResult = [l \in LoaderIds |-> "none"]
  /\ session = [s \in SessionIds |-> NoSession]
  /\ call = [c \in CallIds |-> NoCall]
  /\ nextLoader = 1
  /\ nextSession = 1
  /\ nextCall = 1
  /\ attached = TRUE
  /\ disposeCount = 0
  /\ uncaught = {}
  /\ unrefreshed = 0
  /\ dropped = {}
  /\ refreshedOther = FALSE
  /\ startedIdle = FALSE
  /\ invocations = [l \in LoaderIds |-> 0]
  /\ justDisposed = FALSE

Disposed == disposeCount > 0

\* ------------------------------------------------------- texture slot
\* a slot that keeps the loader it already holds
QueuedSlotKeepFirst(new) == IF pendingTextureLoader = 0 THEN new ELSE pendingTextureLoader

\* queueTextureLoader (line 77): the value stored in the slot
QueuedSlot(new) == new

\* a new loader is handed over; the App drops its board reference on dispose
QueueTextureLoader ==
  /\ ~Disposed
  /\ nextLoader <= MaxLoaders
  /\ pendingTextureLoader' = QueuedSlot(nextLoader)
  /\ nextLoader' = nextLoader + 1
  /\ dropped' = dropped \cup ({unrefreshed} \ {0})
  /\ unrefreshed' = nextLoader
  /\ justDisposed' = FALSE
  /\ UNCHANGED offBoardVars
  /\ UNCHANGED <<xrPresent, supported, currentTexture, currentSession, loopOn, shown,
                 disposedTex, releaseCount, loader, refreshResult, session, call, nextSession,
                 nextCall, attached, disposeCount, uncaught, refreshedOther, startedIdle, invocations>>

\* a refreshTexture() that does nothing while no session is current
RefreshRunsInSession(slot, cs) == slot # 0 /\ cs # 0

\* refreshTexture, line 81: a loader is run when the slot holds one
\* (cs, currentSession at the call, plays no part)
RefreshRuns(slot, cs) == slot # 0

\* a refreshTexture() that leaves the loader it runs in the slot
SlotAfterRunKept(slot) == slot

\* refreshTexture, line 83: the slot is emptied before the loader is called
SlotAfterRun(slot) == 0

\* refreshTexture, lines 81-85: the synchronous part, up to the await of loader()
\* (the slot is emptied before the loader is awaited); slot is what the slot holds
\* at the call, expected the last loader queued since the previous call
BeginRefresh(slot, expected, cs) ==
  /\ refreshedOther' = (refreshedOther \/ (expected # 0 /\ slot # expected))
  /\ unrefreshed' = 0
  /\ IF RefreshRuns(slot, cs)
       THEN /\ loader' = [loader EXCEPT ![slot] = "running"]
            /\ invocations' = [invocations EXCEPT ![slot] = @ + 1]
            /\ pendingTextureLoader' = SlotAfterRun(slot)
            /\ startedIdle' = (startedIdle \/ cs = 0)
       ELSE /\ pendingTextureLoader' = slot
            /\ UNCHANGED <<loader, invocations, startedIdle>>

\* refreshTexture() called by the App (lines 314, 319), not awaited
RefreshTexture ==
  /\ ~Disposed
  /\ BeginRefresh(pendingTextureLoader, unrefreshed, currentSession)
  /\ justDisposed' = FALSE
  /\ UNCHANGED offBoardVars
  /\ UNCHANGED <<xrPresent, supported, currentTexture, currentSession, loopOn, shown,
                 disposedTex, releaseCount, refreshResult, session, call, nextLoader, nextSession,
                 nextCall, attached, disposeCount, uncaught, dropped>>

\* the App's resync (App.tsx lines 313-314 and 318-319): a fresh loader is queued
\* and a refresh is attempted in the same turn
ResyncBoard ==
  /\ ~Disposed
  /\ nextLoader <= MaxLoaders
  /\ nextLoader' = nextLoader + 1
  /\ dropped' = dropped \cup ({unrefreshed} \ {0})
  /\ BeginRefresh(QueuedSlot(nextLoader), nextLoader, currentSession)
  /\ justDisposed' = FALSE
  /\ UNCHANGED <<xrPresent, supported, currentTexture, currentSession, loopOn, shown,
                 disposedTex, releaseCount, refreshResult, session, call, nextSession,
                 nextCall, attached, disposeCount, uncaught>>

Resync == ResyncBoard /\ UNCHANGED offBoardVars

\* applyTexture (lines 163-173): the previous texture is released, the new one bound
AppliedDisposed == IF currentTexture # 0 THEN disposedTex \cup {currentTexture}
                                         ELSE disposedTex

\* an applyTexture that does not release the texture it replaces
AppliedReleasesNone == releaseCount

\* lines 164-166 (and 154-156 in dispose()): currentTexture.dispose() is called
AppliedReleases ==
  IF currentTexture # 0 THEN [releaseCount EXCEPT ![currentTexture] = @ + 1]
                        ELSE releaseCount

\* a refreshTexture() without its catch
RefreshOutcomePropagate(o) == IF o = "failed" THEN "rejected" ELSE "resolved"

\* refreshTexture, lines 84-89: what the call reports when its loader settled
\* with outcome o (the catch swallows a rejection)
RefreshOutcome(o) == "resolved"

\* enter(), lines 128-136, resumed after the awaited refreshTexture() of loader l
\* settled with refresh outcome r
ResumeEnter(l, r) ==
  LET waiting == {c \in CallIds : call[c].pc = "awaitRefresh" /\ call[c].wait = l} IN
  /\ call' = [c \in CallIds |->
                IF c \in waiting
                  THEN IF r = "resolved"
                         THEN [call[c] EXCEPT !.pc = "resolved"]
                         ELSE [call[c] EXCEPT !.pc = "rejected", !.failedAt = "refresh"]
                  ELSE call[c]]
  /\ loopOn' = IF waiting # {} /\ r = "resolved" THEN TRUE ELSE loopOn
  /\ uncaught' = IF waiting = {} /\ r = "rejected" THEN uncaught \cup {"refresh"}
                                                   ELSE uncaught

\* the loader's promise fulfils: lines 85-86
LoaderResolves(l) ==
  /\ loader[l] = "running"
  /\ loader' = [loader EXCEPT ![l] = "ok"]
  /\ currentTexture' = l
  /\ disposedTex' = AppliedDisposed
  /\ releaseCount' = AppliedReleases
  /\ refreshResult' = [refreshResult EXCEPT ![l] = RefreshOutcome("ok")]
  /\ ResumeEnter(l, RefreshOutcome("ok"))
  /\ justDisposed' = FALSE
  /\ UNCHANGED offBoardVars
  /\ UNCHANGED <<xrPresent, supported, pendingTextureLoader, currentSession, shown,
                 session, nextLoader, nextSession, nextCall, attached, disposeCount,
                 unrefreshed, dropped, refreshedOther, startedIdle, invocations>>

\* the loader's promise rejects: lines 87-89
LoaderRejects(l) ==
  /\ loader[l] = "running"
  /\ loader' = [loader EXCEPT ![l] = "failed"]
  /\ refreshResult' = [refreshResult EXCEPT ![l] = RefreshOutcome("failed")]
  /\ ResumeEnter(l, RefreshOutcome("failed"))
  /\ justDisposed' = FALSE
  /\ UNCHANGED offBoardVars
  /\ UNCHANGED <<xrPresent, supported, pendingTextureLoader, currentTexture,
                 currentSession, shown, disposedTex, releaseCount, session, nextLoader, nextSession,
                 nextCall, attached, disposeCount, unrefreshed, dropped, refreshedOther,
                 startedIdle, invocations>>

\* ------------------------------------------------------------ sessions
\* XRSession.end(): starts the shutdown of an active session and rejects on a
\* session that is already ending or ended
EndAccepted(s) == session[s].st = "active"

\* an enter() that falls back to a mode the host supports
RequestedModeAny(m) ==
  IF m \in supported \/ supported = {} THEN m ELSE CHOOSE x \in supported : TRUE

\* enter(), line 107: the mode handed to requestSession
RequestedMode(m) == m

\* an enter() that calls end() on the current session and does not wait for it
PcAfterEndNoWait == "awaitRequest"

\* enter(), lines 98-100: after end() was called the call awaits it
PcAfterEnd == "awaitEnd"

\* enter(mode), lines 93-107, up to its first await
EnterCall(m) ==
  LET c == nextCall IN
  /\ ~Disposed
  /\ c <= MaxEnter
  /\ nextCall' = c + 1
  /\ justDisposed' = FALSE
  /\ IF ~xrPresent
       THEN /\ call' = [call EXCEPT ![c] = [NoCall EXCEPT !.pc = "rejected", !.mode = m,
                                                          !.failedAt = "noxr"]]
            /\ UNCHANGED session
       ELSE IF currentSession # 0
         THEN IF EndAccepted(currentSession)
                THEN /\ session' = [session EXCEPT ![currentSession].st = "ending"]
                     /\ call' = [call EXCEPT ![c] = [NoCall EXCEPT !.pc = PcAfterEnd,
                                   !.mode = m, !.sess = currentSession,
                                   !.reqMode = RequestedMode(m)]]
                ELSE /\ call' = [call EXCEPT ![c] = [NoCall EXCEPT !.pc = "rejected",
                                   !.mode = m, !.sess = currentSession, !.failedAt = "end"]]
                     /\ UNCHANGED session
         ELSE /\ call' = [call EXCEPT ![c] = [NoCall EXCEPT !.pc = "awaitRequest",
                            !.mode = m, !.reqMode = RequestedMode(m)]]
              /\ UNCHANGED session
  /\ UNCHANGED offBoardVars
  /\ UNCHANGED <<xrPresent, supported, pendingTextureLoader, currentTexture,
                 currentSession, loopOn, shown, disposedTex, releaseCount, loader, refreshResult,
                 nextLoader, nextSession, attached, disposeCount, uncaught,
                 unrefreshed, dropped, refreshedOther, startedIdle, invocations>>

\* the session's 'end' event (the user or the device ended it, or its end() completed):
\* the listener of lines 112-116 runs when it was registered, and every enter()
\* awaiting this session's end() (line 99) goes on to requestSession (line 107)
EndEvent(s) ==
  /\ session[s].st \in {"active", "ending"}
  /\ session' = [session EXCEPT ![s].st = "ended"]
  /\ IF session[s].listener
       THEN /\ loopOn' = FALSE
            /\ shown' = FALSE
            /\ currentSession' = 0
       ELSE UNCHANGED <<loopOn, shown, currentSession>>
  /\ call' = [c \in CallIds |->
                IF call[c].pc = "awaitEnd" /\ call[c].sess = s
                  THEN [call[c] EXCEPT !.pc = "awaitRequest", !.sess = 0,
                                       !.reqMode = RequestedMode(call[c].mode)]
                  ELSE call[c]]
  /\ justDisposed' = FALSE
  /\ UNCHANGED offBoardVars
  /\ UNCHANGED <<xrPresent, supported, pendingTextureLoader, currentTexture,
                 disposedTex, releaseCount, loader, refreshResult, nextLoader, nextSession, nextCall,
                 attached, disposeCount, uncaught, unrefreshed, dropped, refreshedOther,
                 startedIdle, invocations>>

\* requestSession fulfils: lines 107-109.  The host grants only a mode it supports;
\* nothing else is assumed of it (the capability contract names requestSession, end()
\* and the end event only), so a request made while another session is live may be
\* granted as well as refused
RequestResolves(c) ==
  LET s == nextSession IN
  /\ call[c].pc = "awaitRequest"
  /\ call[c].reqMode \in supported
  /\ s <= MaxSessions
  /\ nextSession' = s + 1
  /\ session' = [session EXCEPT ![s] = [st |-> "active", mode |-> call[c].reqMode,
                                        listener |-> FALSE]]
  /\ currentSession' = s
  /\ call' = [call EXCEPT ![c].pc = "awaitSetSession", ![c].sess = s]
  /\ justDisposed' = FALSE
  /\ UNCHANGED offBoardVars
  /\ UNCHANGED <<xrPresent, supported, pendingTextureLoader, currentTexture, loopOn,
                 shown, disposedTex, releaseCount, loader, refreshResult, nextLoader, nextCall,
                 attached, disposeCount, uncaught, unrefreshed, dropped, refreshedOther,
                 startedIdle, invocations>>

\* requestSession rejects (unsupported mode, refused by the user or the host): line 107
RequestRejects(c) ==
  /\ call[c].pc = "awaitRequest"
  /\ call' = [call EXCEPT ![c].pc = "rejected", ![c].failedAt = "request"]
  /\ justDisposed' = FALSE
  /\ UNCHANGED offBoardVars
  /\ UNCHANGED <<xrPresent, supported, pendingTextureLoader, currentTexture,
                 currentSession, loopOn, shown, disposedTex, releaseCount, loader, refreshResult,
                 session, nextLoader, nextSession, nextCall, attached, disposeCount,
                 uncaught, unrefreshed, dropped, refreshedOther, startedIdle, invocations>>

\* renderer.xr.setSession fulfils: lines 110-126, and lines 128-136 as well when
\* refreshTexture() finds the slot empty and returns without a loader to await
SetSessionResolves(c) ==
  /\ call[c].pc = "awaitSetSession"
  /\ shown' = TRUE
  /\ session' = [session EXCEPT ![call[c].sess].listener = TRUE]
  /\ BeginRefresh(pendingTextureLoader, unrefreshed, currentSession)
  /\ IF ~RefreshRuns(pendingTextureLoader, currentSession)
       THEN /\ loopOn' = TRUE
            /\ call' = [call EXCEPT ![c].pc = "resolved"]
       ELSE /\ call' = [call EXCEPT ![c].pc = "awaitRefresh",
                                    ![c].wait = pendingTextureLoader]
            /\ UNCHANGED loopOn
  /\ justDisposed' = FALSE
  /\ UNCHANGED offBoardVars
  /\ UNCHANGED <<xrPresent, supported, currentTexture, currentSession, disposedTex, releaseCount,
                 refreshResult, nextLoader, nextSession, nextCall, attached,
                 disposeCount, uncaught, dropped>>

\* renderer.xr.setSession rejects (line 109): enter() rejects with the session kept
SetSessionRejects(c) ==
  /\ call[c].pc = "awaitSetSession"
  /\ call' = [call EXCEPT ![c].pc = "rejected", ![c].failedAt = "setSession"]
  /\ justDisposed' = FALSE
  /\ UNCHANGED offBoardVars
  /\ UNCHANGED <<xrPresent, supported, pendingTextureLoader, currentTexture,
                 currentSession, loopOn, shown, disposedTex, releaseCount, loader, refreshResult,
                 session, nextLoader, nextSession, nextCall, attached, disposeCount,
                 uncaught, unrefreshed, dropped, refreshedOther, startedIdle, invocations>>

\* a dispose() that keeps its session reference
DisposedSessionRefKept == currentSession

\* dispose(), line 144: the session reference it leaves
DisposedSessionRef == 0

\* dispose(), line 143: the errors that escape when end() rejects (the catch drops it)
EndFailureEscapes == {}

\* dispose(), lines 139-161; a rejection of end() is swallowed by its catch (line 143)
Dispose ==
  /\ disposeCount < MaxDispose
  /\ disposeCount' = disposeCount + 1
  /\ loopOn' = FALSE
  /\ IF currentSession # 0
       THEN /\ session' = IF EndAccepted(currentSession)
                            THEN [session EXCEPT ![currentSession].st = "ending"]
                            ELSE session
            /\ currentSession' = DisposedSessionRef
            /\ uncaught' = IF EndAccepted(currentSession)
                             THEN uncaught ELSE uncaught \cup EndFailureEscapes
       ELSE UNCHANGED <<session, currentSession, uncaught>>
  /\ disposedTex' = AppliedDisposed
  /\ releaseCount' = AppliedReleases
  /\ attached' = FALSE
  /\ justDisposed' = TRUE
  /\ UNCHANGED offBoardVars
  /\ UNCHANGED <<xrPresent, supported, pendingTextureLoader, currentTexture, shown,
                 loader, refreshResult, call, nextLoader, nextSession, nextCall,
                 unrefreshed, dropped, refreshedOther, startedIdle, invocations>>

NextBoard ==
  \/ QueueTextureLoader
  \/ RefreshTexture
  \/ Resync
  \/ \E l \in LoaderIds : LoaderResolves(l)
  \/ \E l \in LoaderIds : LoaderRejects(l)
  \/ \E m \in Modes : EnterCall(m)
  \/ \E s \in SessionIds : EndEvent(s)
  \/ \E c \in CallIds : RequestResolves(c)
  \/ \E c \in CallIds : RequestRejects(c)
  \/ \E c \in CallIds : SetSessionResolves(c)
  \/ \E c \in CallIds : SetSessionRejects(c)
  \/ Dispose


\* ============================================================ animator
FADE_DURATION == 350

\* opacities are fixed-point numbers: OpScale stands for 1.0
OpScale == 10^4
\* progress and eased progress are fixed-point numbers: PScale stands for 1.0
PScale == 10^3
\* the 0.001 of line 656
Epsilon == OpScale \div 1000

Layers == {"era-a", "era-b"}
\* targets handed to animateLayerOpacity: 0, 0.65, 0.9995, 1 and 1.2 (out of range)
Targets == {0, 6500, 9995, 10000, 12000}
\* time between two display frames, ms
FrameDeltas == {120, 240}

Max2(a, b) == IF a > b THEN a ELSE b
Min2(a, b) == IF a < b THEN a ELSE b
Abs(a) == IF a < 0 THEN 0 - a ELSE a

\* clamp, lines 75-77
clamp(value, min, max) == Min2(Max2(value, min), max)

\* an animator with no shortcut: every call animates
NearTargetNever(startOpacity, clampedTarget) == FALSE

\* line 656: the live opacity is already at the target
NearTarget(startOpacity, clampedTarget) == Abs(startOpacity - clampedTarget) < Epsilon

\* easeInOut, lines 79-81, on fixed-point progress t
easeInOut(t) ==
  IF 2 * t < PScale
    THEN (2 * t * t) \div PScale
    ELSE PScale - (((2 * PScale - 2 * t) * (2 * PScale - 2 * t)) \div (2 * PScale))

\* a progress that never reaches 1
ProgressStuck(startTime, t) ==
  clamp(((t - startTime) * PScale) \div FADE_DURATION, 0, PScale - 1)

\* line 670
Progress(startTime, t) == clamp(((t - startTime) * PScale) \div FADE_DURATION, 0, PScale)

\* line 672
Blend(startOpacity, clampedTarget, eased) ==
  startOpacity + ((clampedTarget - startOpacity) * eased) \div PScale

FramesOf(L) == {f \in frames : f.layerId = L}

InitAnim ==
  /\ mapLayers \in SUBSET Layers
  /\ opacity = [L \in Layers |-> 0]
  /\ animations = [L \in Layers |-> 0]
  /\ frames = {}
  /\ now = 0
  /\ nextFrame = 1
  /\ animCalls = 0
  /\ lastTarget = [L \in Layers |-> 0]
  /\ overlapped = [L \in Layers |-> FALSE]
  /\ cancelled = {}

\* the animator is at rest (used by the specifications of the board)
AnimIdle ==
  /\ mapLayers = {}
  /\ opacity = [L \in Layers |-> 0]
  /\ animations = [L \in Layers |-> 0]
  /\ frames = {}
  /\ now = 0
  /\ nextFrame = 1
  /\ animCalls = 0
  /\ lastTarget = [L \in Layers |-> 0]
  /\ overlapped = [L \in Layers |-> FALSE]
  /\ cancelled = {}

\* an animator that does not cancel the recorded frame
AfterCancelNone(L) == frames

\* lines 661-665: the pending frames left after the cancellation of the recorded one
AfterCancel(L) == {f \in frames : f.id # animations[L]}

\* animateLayerOpacity(map, layerId, target, animations), lines 646-686
animateLayerOpacity(L, target) ==
  LET clampedTarget == clamp(target, 0, OpScale)
      startOpacity == opacity[L]
  IN
  /\ animCalls < MaxAnimCalls
  /\ animCalls' = animCalls + 1
  /\ IF L \notin mapLayers
       THEN UNCHANGED <<opacity, animations, frames, nextFrame, lastTarget,
                        overlapped, cancelled>>
       ELSE
         /\ lastTarget' = [lastTarget EXCEPT ![L] = clampedTarget]
         /\ overlapped' = [overlapped EXCEPT ![L] = (FramesOf(L) # {})]
         /\ IF NearTarget(startOpacity, clampedTarget)
              THEN /\ opacity' = [opacity EXCEPT ![L] = clampedTarget]
                   /\ UNCHANGED <<animations, frames, nextFrame, cancelled>>
              ELSE /\ frames' = AfterCancel(L) \cup
                                 {[id |-> nextFrame, layerId |-> L,
                                   startOpacity |-> startOpacity,
                                   clampedTarget |-> clampedTarget,
                                   startTime |-> now, reqTime |-> now,
                                   map |-> mapRef]}
                   /\ cancelled' = IF animations[L] # 0
                                     THEN cancelled \cup {<<animations[L], L>>} ELSE cancelled
                   /\ animations' = [animations EXCEPT ![L] = nextFrame]
                   /\ nextFrame' = nextFrame + 1
                   /\ UNCHANGED opacity
  /\ UNCHANGED <<mapLayers, now>>
  /\ UNCHANGED offAnimVars

\* a step that empties the registry when its animation is over
DeleteRecordAll(registry, L) == [K \in DOMAIN registry |-> 0]

\* line 679: animations.delete(layerId)
DeleteRecord(registry, L) == [registry EXCEPT ![L] = 0]

\* the display frame after the request: step(now), lines 669-682
Step(f) ==
  LET L == f.layerId
      progress == Progress(f.startTime, now)
      eased == easeInOut(progress)
      current == Blend(f.startOpacity, f.clampedTarget, eased)
  IN
  /\ f \in frames
  /\ now > f.reqTime
  /\ IF progress < PScale
       THEN /\ opacity' = [opacity EXCEPT ![L] = current]
            /\ frames' = (frames \ {f}) \cup
                           {[f EXCEPT !.id = nextFrame, !.reqTime = now]}
            /\ animations' = [animations EXCEPT ![L] = nextFrame]
            /\ nextFrame' = nextFrame + 1
       ELSE /\ opacity' = [opacity EXCEPT ![L] = f.clampedTarget]
            /\ frames' = frames \ {f}
            /\ animations' = DeleteRecord(animations, L)
            /\ UNCHANGED nextFrame
  /\ UNCHANGED <<mapLayers, now, animCalls, lastTarget, overlapped, cancelled>>
  /\ UNCHANGED offAnimVars

\* time passes up to the next display frame
Tick(d) ==
  /\ now + d <= MaxTime
  /\ now' = now + d
  /\ UNCHANGED <<mapLayers, opacity, animations, frames, nextFrame, animCalls,
                 lastTarget, overlapped, cancelled>>
  /\ UNCHANGED offAnimVars

NextAnim ==
  \/ \E L \in Layers, t \in Targets : animateLayerOpacity(L, t)
  \/ \E f \in frames : Step(f)
  \/ \E d \in FrameDeltas : Tick(d)

\* ===================================================== composite tile loader
\* loadTileTexture (src/unnamed/part_001): one call, its image fetches and its canvas
TILE_SIZE == 256

\* tileSpan is given in halves (TileSpans2 = 3 stands for 1.5); Math.floor of it
FloorHalves(x2) == x2 \div 2

\* line 27
SpanOf(tileSpan2) == Max2(1, FloorHalves(tileSpan2))

\* lines 29-30
TopLeft(center, span) == <<center[1] - span \div 2, center[2] - span \div 2>>

\* the tileSpan values handed in, in halves: 0, 0.5, 1, ...
TileSpans2 == 0..MaxSpan2
\* the center cell latLngToTile yields (lines 28, 108-114), an input of the model
CenterTiles == {<<5, 9>>, <<0, 3>>}

CellsOf(span) == (0..(span - 1)) \X (0..(span - 1))

\* buildTileUrl, lines 83-85
buildTileUrl(layer, extension, zoom, x, y) ==
  [layer |-> layer, zoom |-> zoom, x |-> x, y |-> y, extension |-> extension]

\* lines 47-54: the urls of cell (row, col), the primary first
UrlsOf(o, row, col) ==
  LET span == SpanOf(o.tileSpan2)
      tileX == TopLeft(o.center, span)[1] + col
      tileY == TopLeft(o.center, span)[2] + row
  IN <<buildTileUrl(o.layer, o.extension, o.zoom, tileX, tileY)>> \o
     (IF o.fallbackLayer # ""
        THEN <<buildTileUrl(o.fallbackLayer, o.fallbackExtension, o.zoom, tileX, tileY)>>
        ELSE << >>)

\* a loader that draws a cell at the transposed position
DrawAtTransposed(row, col) == <<row * TILE_SIZE, col * TILE_SIZE>>

\* lines 65-66: (dx, dy) of cell (row, col)
DrawAt(row, col) == <<col * TILE_SIZE, row * TILE_SIZE>>

\* a loader that leaves a failed cell as the background fill left it
FailedCellFillNone(block) == block

\* lines 70-71: the fill of a cell with no image
FailedCellFill(block) == [fill |-> "#1e293b", image |-> << >>]

\* line 68: drawImage of a cell's image over its block
DrawImage(block, image) == [block EXCEPT !.image = <<image>>]

TileIdle ==
  /\ tlPc = "idle"
  /\ tlOpts = [tileSpan2 |-> 0]
  /\ cell = << >>
  /\ canvas = << >>
  /\ fetched = {}
  /\ attempts = << >>
  /\ loaded = {}
  /\ failed = {}

\* loadTileTexture(options), lines 17-60, up to the await of Promise.all: the canvas
\* is made and filled, and the first fetch of every cell is started (tryLoad(0))
LoadTileTexture(o) ==
  LET span == SpanOf(o.tileSpan2) IN
  /\ tlPc = "idle"
  /\ tlOpts' = o
  /\ IF ~o.context
       THEN /\ tlPc' = "rejected"
            /\ UNCHANGED <<cell, canvas, fetched, attempts>>
       ELSE /\ tlPc' = "loading"
            /\ canvas' = [p \in {DrawAt(c[1], c[2]) : c \in CellsOf(span)} |->
                            [fill |-> "#0f172a", image |-> << >>]]
            /\ cell' = [c \in CellsOf(span) |-> [index |-> 1, settled |-> "pending"]]
            /\ fetched' = {UrlsOf(o, c[1], c[2])[1] : c \in CellsOf(span)}
            /\ attempts' = [c \in CellsOf(span) |-> <<UrlsOf(o, c[1], c[2])[1]>>]
  /\ UNCHANGED <<loaded, failed>>
  /\ UNCHANGED offTileVars

\* image.onload, line 97: the cell's promise fulfils with the image of the url tried
ImageLoads(c) ==
  LET urls == UrlsOf(tlOpts, c[1], c[2]) IN
  /\ tlPc = "loading"
  /\ cell[c].settled = "pending"
  /\ cell' = [cell EXCEPT ![c].settled = "image"]
  /\ loaded' = loaded \cup {urls[cell[c].index]}
  /\ UNCHANGED <<tlPc, tlOpts, canvas, fetched, attempts, failed>>
  /\ UNCHANGED offTileVars

\* a loader that tries the failed url again
tryLoadNextSame(index) == index

\* line 98: the index tryLoad is called with after a failure
tryLoadNext(index) == index + 1

\* image.onerror, lines 98-100 and 88-91: the next url is tried, and with none left
\* the cell's promise fulfils with null
ImageFails(c) ==
  LET urls == UrlsOf(tlOpts, c[1], c[2])
      index == cell[c].index
  IN
  /\ tlPc = "loading"
  /\ cell[c].settled = "pending"
  /\ failed' = failed \cup {urls[index]}
  /\ IF tryLoadNext(index) > Len(urls)
       THEN /\ cell' = [cell EXCEPT ![c].settled = "null"]
            /\ UNCHANGED <<fetched, attempts>>
       ELSE /\ cell' = [cell EXCEPT ![c].index = tryLoadNext(index)]
            /\ fetched' = fetched \cup {urls[tryLoadNext(index)]}
            /\ attempts' = [attempts EXCEPT ![c] = Append(@, urls[tryLoadNext(index)])]
  /\ UNCHANGED <<tlPc, tlOpts, canvas, loaded>>
  /\ UNCHANGED offTileVars

\* a loader that goes on as soon as one cell has settled
TilesAwaitedAny(cells) == \E c \in DOMAIN cells : cells[c].settled # "pending"

\* line 62: await Promise.all(promises) is over once every cell's promise fulfilled
TilesAwaited(cells) == \A c \in DOMAIN cells : cells[c].settled # "pending"

\* lines 62-80: every cell's promise has settled; the cells are drawn and the
\* texture of the canvas is returned
Assemble ==
  /\ tlPc = "loading"
  /\ TilesAwaited(cell)
  /\ canvas' = [p \in DOMAIN canvas |->
                  LET here == {c \in DOMAIN cell : DrawAt(c[1], c[2]) = p} IN
                  IF here = {} THEN canvas[p]
                  ELSE LET c == CHOOSE x \in here : TRUE IN
                       IF cell[c].settled = "image"
                         THEN DrawImage(canvas[p], UrlsOf(tlOpts, c[1], c[2])[cell[c].index])
                         ELSE FailedCellFill(canvas[p])]
  /\ tlPc' = "resolved"
  /\ UNCHANGED <<tlOpts, cell, fetched, attempts, loaded, failed>>
  /\ UNCHANGED offTileVars

TileOptions ==
  {o \in [tileSpan2 : TileSpans2, center : CenterTiles, layer : {"ort"},
          extension : {"jpg"}, zoom : {16}, fallbackLayer : {"", "gazo1"},
          fallbackExtension : {"jpg"}, context : BOOLEAN] :
     o.fallbackLayer = "" \/ o.tileSpan2 <= FallbackSpan2}

NextTile ==
  \/ \E o \in TileOptions : LoadTileTexture(o)
  \/ \E c \in DOMAIN cell : ImageLoads(c)
  \/ \E c \in DOMAIN cell : ImageFails(c)
  \/ Assemble

\* ======================================================= capability detection
\* a detectSupportedModes() whose probes have no catch of their own
ProbeCaughtNot(o) == o

\* detectSupportedModes, lines 66-67: .catch(() => false) on each probe
ProbeCaught(o) == IF o = "error" THEN "false" ELSE o

DetectIdle ==
  /\ probe = [m \in Modes |-> "idle"]
  /\ detectPc = "idle"
  /\ detected = {}
  /\ detectCalls = 0

\* detectSupportedModes(), lines 61-68, up to the await of Promise.all
DetectSupportedModes ==
  /\ detectPc # "pending"
  /\ detectCalls < MaxDetect
  /\ detectCalls' = detectCalls + 1
  /\ IF ~xrPresent
       THEN /\ detectPc' = "resolved"
            /\ detected' = {}
            /\ probe' = [m \in Modes |-> "idle"]
       ELSE /\ detectPc' = "pending"
            /\ probe' = [m \in Modes |-> "pending"]
            /\ UNCHANGED detected
  /\ UNCHANGED <<boardVars, animVars, tileVars, appVars>>

\* xr.isSessionSupported(m) settles: it reports what the host supports, or rejects
ProbeSettles(m, o) ==
  /\ detectPc = "pending"
  /\ probe[m] = "pending"
  /\ o \in {IF m \in supported THEN "true" ELSE "false", "error"}
  /\ probe' = [probe EXCEPT ![m] = o]
  /\ UNCHANGED <<detectPc, detected, detectCalls>>
  /\ UNCHANGED <<boardVars, animVars, tileVars, appVars>>

\* lines 65-73: Promise.all has settled, the modes are collected
DetectSettles ==
  /\ detectPc = "pending"
  /\ \A m \in Modes : probe[m] # "pending"
  /\ IF \E m \in Modes : ProbeCaught(probe[m]) = "error"
       THEN /\ detectPc' = "rejected"
            /\ UNCHANGED detected
       ELSE /\ detectPc' = "resolved"
            /\ detected' = {m \in Modes : ProbeCaught(probe[m]) = "true"}
  /\ UNCHANGED <<probe, detectCalls>>
  /\ UNCHANGED <<boardVars, animVars, tileVars, appVars>>

NextDetect ==
  \/ DetectSupportedModes
  \/ \E m \in Modes, o \in {"true", "false", "error"} : ProbeSettles(m, o)
  \/ DetectSettles

\* ================================================================== the App
\* src/src/App.tsx: the React state, the map and the effects that follow a change
EraIds == <<"a", "b", "c", "d">>
Spots == {1, 2}

\* layerIdForEra, lines 626-628: `era-${id}`
layerIdForEra(id) ==
  CASE id = "a" -> "era-a" [] id = "b" -> "era-b" [] id = "c" -> "era-c"
    [] id = "d" -> "era-d"

\* fallbackLayerIdForEra, lines 630-632: `era-${id}-fallback`
fallbackLayerIdForEra(id) ==
  CASE id = "a" -> "era-a-fallback" [] id = "b" -> "era-b-fallback"
    [] id = "c" -> "era-c-fallback" [] id = "d" -> "era-d-fallback"

\* timeline.eras: 1 to MaxEras eras, at most MaxFallbacks of them with a fallbackLayer
Timelines ==
  UNION {{[j \in 1..n |-> [id |-> EraIds[j], fallbackLayer |-> fb[j]]] :
            fb \in {g \in [1..n -> BOOLEAN] :
                      Cardinality({j \in 1..n : g[j]}) <= MaxFallbacks}} : n \in 1..MaxEras}

\* every layer id a timeline can give rise to
AppLayers ==
  {layerIdForEra(EraIds[j]) : j \in 1..MaxEras} \cup
  {fallbackLayerIdForEra(EraIds[j]) : j \in 1..MaxEras}

\* setupEraLayers, lines 528-582: the layers the map has after its load event
EraLayersOf(eras) ==
  {layerIdForEra(eras[j].id) : j \in 1..Len(eras)} \cup
  {fallbackLayerIdForEra(eras[j].id) : j \in {k \in 1..Len(eras) : eras[k].fallbackLayer}}

\* map.getCenter() and map.getZoom(): the zoom in halves (29 stands for 14.5)
Views == {[center |-> "makuhari", zoom2 |-> 20], [center |-> "kaihin", zoom2 |-> 29],
          [center |-> "kaihin", zoom2 |-> 36], [center |-> "kaihin", zoom2 |-> 19]}
\* lines 150-151: maxZoom and minZoom of the map, in halves (16 or 18, 9.5 or 10)
mapMaxZoom2(mobile) == IF mobile THEN 32 ELSE 36
mapMinZoom2(mobile) == IF mobile THEN 19 ELSE 20
\* lines 143-149: center and zoom of a map made for a spot
SpotView(s) == IF s = 2 THEN [center |-> "kaihin", zoom2 |-> 29]
                        ELSE [center |-> "makuhari", zoom2 |-> 20]

\* line 335-339: where flyTo takes the map (zoom clamp(spot.z, 12, 16 or 17))
FlyToView(s, mobile) ==
  [center |-> SpotView(s).center,
   zoom2 |-> clamp(SpotView(s).zoom2, 2 * 12, 2 * (IF mobile THEN 16 ELSE 17))]

\* Math.round of a zoom given in halves
RoundHalves(z2) == (z2 + 1) \div 2

\* opacities of the coastline overlay are fractions <<numerator, denominator>>
\* computeOldSeaFillOpacity, lines 634-638:  0.18 + ratio * 0.22
computeOldSeaFillOpacity(index, total) ==
  IF total <= 1 THEN <<25, 100>>
  ELSE <<18 * (total - 1) + 22 * ((total - 1) - index), 100 * (total - 1)>>

\* a line opacity that grows with the index
computeOldSeaLineOpacityRising(index, total) ==
  IF total <= 1 THEN <<90, 100>>
  ELSE <<40 * (total - 1) + 60 * index, 100 * (total - 1)>>

\* computeOldSeaLineOpacity, lines 640-644:  0.4 + ratio * 0.6
computeOldSeaLineOpacity(index, total) ==
  IF total <= 1 THEN <<90, 100>>
  ELSE <<40 * (total - 1) + 60 * ((total - 1) - index), 100 * (total - 1)>>

\* the animator's state as one value, for the calls a handler makes in a row
AnimNow ==
  [opacity |-> opacity, animations |-> animations, frames |-> frames,
   nextFrame |-> nextFrame, lastTarget |-> lastTarget, overlapped |-> overlapped,
   cancelled |-> cancelled, requests |-> << >>]

\* animateLayerOpacity, lines 646-667, applied to the animator state A of a map with
\* the layers in ls; the call is noted in A.requests
AnimateIn(A, ls, L, target) ==
  LET clampedTarget == clamp(target, 0, OpScale)
      startOpacity == A.opacity[L]
      B == [A EXCEPT !.requests = Append(@, <<L, target>>)]
  IN
  IF L \notin ls THEN B
  ELSE LET C == [B EXCEPT !.lastTarget[L] = clampedTarget,
                          !.overlapped[L] = ({f \in A.frames : f.layerId = L} # {})]
       IN IF NearTarget(startOpacity, clampedTarget)
            THEN [C EXCEPT !.opacity[L] = clampedTarget]
            ELSE [C EXCEPT !.frames = {f \in @ : f.id # A.animations[L]} \cup
                                        {[id |-> A.nextFrame, layerId |-> L,
                                          startOpacity |-> startOpacity,
                                          clampedTarget |-> clampedTarget,
                                          startTime |-> now, reqTime |-> now,
                                   map |-> mapRef]},
                           !.cancelled = IF A.animations[L] # 0
                                           THEN @ \cup {<<A.animations[L], L>>} ELSE @,
                           !.animations[L] = A.nextFrame,
                           !.nextFrame = @ + 1]

\* a fallback layer faded in as far as its era's own layer
FallbackTargetFull(selected) == IF selected THEN OpScale ELSE 0

\* line 264: the target of an era's fallback layer (0.65 or 0)
FallbackTarget(selected) == IF selected THEN (65 * OpScale) \div 100 ELSE 0

\* line 258: the target of an era's layer
EraTarget(selected) == IF selected THEN OpScale ELSE 0

\* lines 256-267: the forEach over timeline.eras, from era j on
RECURSIVE EraTargetsFrom(_, _, _, _, _)
EraTargetsFrom(A, ls, eras, sel, j) ==
  IF j > Len(eras) THEN A
  ELSE LET B == AnimateIn(A, ls, layerIdForEra(eras[j].id), EraTarget(j - 1 = sel))
           C == IF eras[j].fallbackLayer
                  THEN AnimateIn(B, ls, fallbackLayerIdForEra(eras[j].id),
                                 FallbackTarget(j - 1 = sel))
                  ELSE B
       IN EraTargetsFrom(C, ls, eras, sel, j + 1)

\* the animator's variables take the values of A
SetAnim(A) ==
  /\ opacity' = A.opacity
  /\ animations' = A.animations
  /\ frames' = A.frames
  /\ nextFrame' = A.nextFrame
  /\ lastTarget' = A.lastTarget
  /\ overlapped' = A.overlapped
  /\ cancelled' = A.cancelled

\* the era opacity effect, lines 252-278, on a map with layers ls (sea tells
\* whether the coastline layers exist) and animator state A
EraEffect(A, ls, sea, eras, sel, ready, map) ==
  IF ~ready \/ eras = << >> \/ map = 0
    THEN /\ SetAnim(A)
         /\ UNCHANGED <<oldSea, requests>>
    ELSE LET B == EraTargetsFrom(A, ls, eras, sel, 1) IN
         /\ SetAnim(B)
         /\ requests' = B.requests
         /\ oldSea' = IF sea
                        THEN [fill |-> computeOldSeaFillOpacity(sel, Len(eras)),
                              line |-> computeOldSeaLineOpacity(sel, Len(eras))]
                        ELSE oldSea

\* line 289
zoomCeil(mobile) == IF mobile THEN 16 ELSE 17

\* zoom floors given to the wrong viewport class
zoomFloorSwapped(mobile) == IF mobile THEN 12 ELSE 11

\* line 290
zoomFloor(mobile) == IF mobile THEN 11 ELSE 12

\* queueXRTextureUpdate, lines 280-308: the options of the loader it queues
queueXRTextureUpdate(eras, sel, v, mobile) ==
     [era |-> eras[sel + 1].id, center |-> v.center,
      zoom |-> clamp(RoundHalves(v.zoom2), zoomFloor(mobile), zoomCeil(mobile)),
      fallbackLayer |-> eras[sel + 1].fallbackLayer,
      tileSpan |-> IF mobile THEN 2 ELSE 3]

\* lines 313-314 and 318-319: queueXRTextureUpdate() and refreshTexture() in a row
ResyncApp(eras, sel, v, mobile) ==
  /\ ResyncBoard
  /\ lastQueued' = queueXRTextureUpdate(eras, sel, v, mobile)

NoResync == UNCHANGED boardVars /\ UNCHANGED lastQueued

\* a cleanup that empties the registry and cancels nothing
MapCleanupNoCancel ==
  [AnimNow EXCEPT
     !.animations = [L \in DOMAIN animations |-> 0],
     !.opacity = [L \in DOMAIN opacity |-> 0]]

\* the cleanup of the map effect, lines 160-165, on the animator: every recorded
\* frame is cancelled and the registry emptied
MapCleanup ==
  [AnimNow EXCEPT
     !.frames = {f \in @ : \A L \in DOMAIN animations : animations[L] # f.id},
     !.cancelled = @ \cup {<<animations[L], L>> : L \in {K \in DOMAIN animations :
                                                           animations[K] # 0}},
     !.animations = [L \in DOMAIN animations |-> 0],
     !.opacity = [L \in DOMAIN opacity |-> 0]]

\* step(now), lines 669-682, of the pending frame f at time t, on animator state A
StepIn(A, f, t) ==
  LET L == f.layerId
      progress == Progress(f.startTime, t)
      current == Blend(f.startOpacity, f.clampedTarget, easeInOut(progress))
  IN IF progress < PScale
       THEN [A EXCEPT !.opacity[L] = current,
                      !.frames = (@ \ {f}) \cup {[f EXCEPT !.id = A.nextFrame,
                                                            !.reqTime = t]},
                      !.animations[L] = A.nextFrame,
                      !.nextFrame = @ + 1]
       ELSE [A EXCEPT !.opacity[L] = f.clampedTarget,
                      !.frames = @ \ {f},
                      !.animations = DeleteRecord(@, L)]

\* a display frame runs the callbacks in todo, in the order they were requested
RECURSIVE RunFrames(_, _, _)
RunFrames(A, todo, t) ==
  IF todo = {} THEN A
  ELSE LET f == CHOOSE x \in todo : \A y \in todo : x.id <= y.id
       IN RunFrames(StepIn(A, f, t), todo \ {f}, t)

\* the next display frame, d ms later: every callback pending at that moment runs
DisplayFrame(d) ==
  /\ now' = now + d
  /\ SetAnim(RunFrames(AnimNow, frames, now + d))
  /\ UNCHANGED <<mapLayers, animCalls>>
  /\ UNCHANGED offAnimVars

InitApp ==
  /\ timeline = << >>
  /\ selectedEraIndex = 0
  /\ activeSpotId = 0
  /\ isMobileViewport \in BOOLEAN
  /\ isMapReady = FALSE
  /\ mapRef = 0
  /\ mapLoaded = FALSE
  /\ nextMap = 1
  /\ moveendMap = 0
  /\ view = SpotView(1)
  /\ oldSea = [fill |-> <<0, 1>>, line |-> <<0, 1>>]
  /\ requests = << >>
  /\ lastQueued = [era |-> ""]
  /\ moveends = 0

\* the App's state while the board or the animator is studied on its own
AppIdle ==
  /\ InitApp
  /\ isMobileViewport = FALSE

\* the animator of the App before its map exists
InitAppAnim ==
  /\ mapLayers = {}
  /\ opacity = [L \in AppLayers |-> 0]
  /\ animations = [L \in AppLayers |-> 0]
  /\ frames = {}
  /\ now = 0
  /\ nextFrame = 1
  /\ animCalls = 0
  /\ lastTarget = [L \in AppLayers |-> 0]
  /\ overlapped = [L \in AppLayers |-> FALSE]
  /\ cancelled = {}

\* lines 115-117 and the effects that follow: the timeline arrives, the map is made
\* (lines 140-158) and the resync effect runs (lines 310-322)
TimelineLoaded(eras) ==
  /\ timeline = << >>
  /\ nextMap <= MaxMaps
  /\ timeline' = eras
  /\ selectedEraIndex' = 0
  /\ activeSpotId' = 1
  /\ mapRef' = nextMap
  /\ nextMap' = nextMap + 1
  /\ mapLoaded' = FALSE
  /\ view' = SpotView(1)
  /\ ResyncApp(eras, 0, SpotView(1), isMobileViewport)
  /\ moveendMap' = nextMap
  /\ UNCHANGED <<isMobileViewport, isMapReady, oldSea, requests, moveends>>
  /\ UNCHANGED animVars
  /\ UNCHANGED <<tileVars, detectVars>>

\* the map's load event, lines 154-158, and the era effect that follows the first
\* setIsMapReady(true)
MapLoad ==
  /\ mapRef # 0
  /\ ~mapLoaded
  /\ mapLoaded' = TRUE
  /\ mapLayers' = EraLayersOf(timeline)
  /\ isMapReady' = TRUE
  /\ IF ~isMapReady
       THEN EraEffect(AnimNow, EraLayersOf(timeline), TRUE, timeline, selectedEraIndex,
                      TRUE, mapRef)
       ELSE /\ oldSea' = [fill |-> <<30, 100>>, line |-> <<90, 100>>]
            /\ UNCHANGED <<opacity, animations, frames, nextFrame, lastTarget, overlapped,
                           cancelled, requests>>
  /\ UNCHANGED <<now, animCalls>>
  /\ UNCHANGED <<timeline, selectedEraIndex, activeSpotId, isMobileViewport, mapRef,
                 nextMap, moveendMap, view, lastQueued, moveends>>
  /\ UNCHANGED <<boardVars, tileVars, detectVars>>

\* setSelectedEraIndex(i) with a new index: the era effect (lines 252-278), then the
\* resync effect is cleaned up and run again (lines 310-326)
SelectEra(i) ==
  /\ timeline # << >>
  /\ i \in 0..(Len(timeline) - 1)
  /\ i # selectedEraIndex
  /\ selectedEraIndex' = i
  /\ EraEffect(AnimNow, mapLayers, mapLoaded, timeline, i, isMapReady, mapRef)
  /\ IF mapRef # 0
       THEN /\ ResyncApp(timeline, i, view, isMobileViewport)
            /\ moveendMap' = mapRef
       ELSE /\ NoResync
            /\ moveendMap' = 0
  /\ UNCHANGED <<mapLayers, now, animCalls>>
  /\ UNCHANGED <<timeline, activeSpotId, isMobileViewport, isMapReady, mapRef, mapLoaded,
                 nextMap, view, moveends>>
  /\ UNCHANGED <<tileVars, detectVars>>

\* onSpotSelect, lines 328-341; a new activeSpotId makes the map effect clean up and
\* run again (lines 140-174): the map is removed and another is made
onSpotSelect(s) ==
  /\ timeline # << >>
  /\ mapRef # 0
  /\ activeSpotId' = s
  /\ IF s = activeSpotId
       THEN /\ view' = FlyToView(s, isMobileViewport)
            /\ UNCHANGED <<animVars, mapRef, mapLoaded, nextMap>>
       ELSE /\ nextMap <= MaxMaps
            /\ view' = SpotView(s)
            /\ SetAnim(MapCleanup)
            /\ mapLayers' = {}
            /\ mapRef' = nextMap
            /\ nextMap' = nextMap + 1
            /\ mapLoaded' = FALSE
            /\ UNCHANGED <<now, animCalls>>
  /\ NoResync
  /\ UNCHANGED <<timeline, selectedEraIndex, isMobileViewport, isMapReady, moveendMap,
                 oldSea, requests, moveends>>
  /\ UNCHANGED <<tileVars, detectVars>>

\* the media query changes (lines 129-136): with a timeline the map is rebuilt (lines
\* 140-174) and the resync effect is cleaned up and run again (lines 310-326)
ViewportClassChange ==
  /\ isMobileViewport' = ~isMobileViewport
  /\ IF timeline = << >>
       THEN /\ UNCHANGED <<animVars, mapRef, mapLoaded, nextMap, moveendMap, view>>
            /\ NoResync
       ELSE /\ nextMap <= MaxMaps
            /\ SetAnim(MapCleanup)
            /\ mapLayers' = {}
            /\ mapRef' = nextMap
            /\ nextMap' = nextMap + 1
            /\ mapLoaded' = FALSE
            /\ view' = SpotView(activeSpotId)
            /\ ResyncApp(timeline, selectedEraIndex, SpotView(activeSpotId),
                         ~isMobileViewport)
            /\ moveendMap' = nextMap
            /\ UNCHANGED <<now, animCalls>>
  /\ UNCHANGED <<timeline, selectedEraIndex, activeSpotId, isMapReady, oldSea, requests,
                 moveends>>
  /\ UNCHANGED <<tileVars, detectVars>>

\* a pan or zoom frame of the current map, within the zoom range the map was made
\* with: no handler of the App is registered for it
Move(v) ==
  /\ mapRef # 0
  /\ v # view
  /\ v.zoom2 >= mapMinZoom2(isMobileViewport)
  /\ v.zoom2 <= mapMaxZoom2(isMobileViewport)
  /\ view' = v
  /\ UNCHANGED <<timeline, selectedEraIndex, activeSpotId, isMobileViewport, isMapReady,
                 mapRef, mapLoaded, nextMap, moveendMap, oldSea, requests, lastQueued,
                 moveends>>
  /\ UNCHANGED <<boardVars, animVars, tileVars, detectVars>>

\* the current map's moveend event: handleMoveEnd (lines 316-320) runs when it is
\* registered on this map
MoveEnd ==
  /\ mapRef # 0
  /\ moveends < MaxMoveEnds
  /\ moveends' = moveends + 1
  /\ IF moveendMap = mapRef
       THEN ResyncApp(timeline, selectedEraIndex, view, isMobileViewport)
       ELSE NoResync
  /\ UNCHANGED <<timeline, selectedEraIndex, activeSpotId, isMobileViewport, isMapReady,
                 mapRef, mapLoaded, nextMap, moveendMap, view, oldSea, requests>>
  /\ UNCHANGED <<animVars, tileVars, detectVars>>

\* ====================================================== specifications
BoardIdle ==
  /\ InitBoard
  /\ xrPresent = FALSE
  /\ supported = {}

InitAnimator == BoardIdle /\ InitAnim /\ TileIdle /\ AppIdle /\ DetectIdle
SpecAnim == InitAnimator /\ [][NextAnim]_vars

\* the animator with display frames that keep coming: time passes and every pending
\* frame callback is called; an animation is started while enough of the clock is
\* left for its window
\* the targets of the era effect (lines 258 and 264): 0, 0.65 and 1
FadeTargets == {0, 6500, 10000}

AnimateFade ==
  /\ \A d \in FrameDeltas : now + FADE_DURATION + d <= MaxTime
  /\ \E L \in Layers, t \in FadeTargets : animateLayerOpacity(L, t)
StepFade == \E f \in frames : Step(f)
TickFade == \E d \in FrameDeltas : Tick(d)

NextFade ==
  \/ AnimateFade
  \/ StepFade
  \/ TickFade

InitFade == InitAnimator /\ mapLayers = Layers

SpecFade ==
  /\ InitFade
  /\ [][NextFade]_vars
  /\ WF_vars(TickFade)
  /\ \A L \in Layers : WF_vars(\E f \in FramesOf(L) : Step(f))

Init == InitBoard /\ AnimIdle /\ TileIdle /\ AppIdle /\ DetectIdle
\* the board with every operation, FullLoaders loaders
QueueFull == nextLoader <= FullLoaders /\ QueueTextureLoader
ResyncFull == nextLoader <= FullLoaders /\ Resync

Next ==
  \/ QueueFull
  \/ RefreshTexture
  \/ ResyncFull
  \/ \E l \in LoaderIds : LoaderResolves(l)
  \/ \E l \in LoaderIds : LoaderRejects(l)
  \/ \E m \in Modes : EnterCall(m)
  \/ \E s \in SessionIds : EndEvent(s)
  \/ \E c \in CallIds : RequestResolves(c)
  \/ \E c \in CallIds : RequestRejects(c)
  \/ \E c \in CallIds : SetSessionResolves(c)
  \/ \E c \in CallIds : SetSessionRejects(c)
  \/ Dispose
Spec == Init /\ [][Next]_vars

\* the board while it is in use: every operation but dispose(), one enter() call
QueueLive == nextLoader <= LiveLoaders /\ QueueTextureLoader
ResyncLive == nextLoader <= LiveLoaders /\ Resync
EnterLive == nextCall <= LiveEnter /\ \E m \in Modes : EnterCall(m)

NextLive ==
  \/ QueueLive
  \/ RefreshTexture
  \/ ResyncLive
  \/ \E l \in LoaderIds : LoaderResolves(l)
  \/ \E l \in LoaderIds : LoaderRejects(l)
  \/ EnterLive
  \/ \E s \in SessionIds : EndEvent(s)
  \/ \E c \in CallIds : RequestResolves(c)
  \/ \E c \in CallIds : RequestRejects(c)
  \/ \E c \in CallIds : SetSessionResolves(c)
  \/ \E c \in CallIds : SetSessionRejects(c)

SpecLive == Init /\ [][NextLive]_vars

\* the board up to and through its teardown: one enter() call, repeated dispose()
QueueTeardown == nextLoader <= TeardownLoaders /\ QueueTextureLoader
ResyncTeardown == nextLoader <= TeardownLoaders /\ Resync

NextTeardown ==
  \/ QueueTeardown
  \/ RefreshTexture
  \/ ResyncTeardown
  \/ \E l \in LoaderIds : LoaderResolves(l)
  \/ \E l \in LoaderIds : LoaderRejects(l)
  \/ EnterLive
  \/ \E s \in SessionIds : EndEvent(s)
  \/ \E c \in CallIds : RequestResolves(c)
  \/ \E c \in CallIds : RequestRejects(c)
  \/ \E c \in CallIds : SetSessionResolves(c)
  \/ \E c \in CallIds : SetSessionRejects(c)
  \/ Dispose

SpecTeardown == Init /\ [][NextTeardown]_vars

\* the board entered again and again, one enter() call at a time, no dispose()
QueueSerial == nextLoader <= SerialLoaders /\ QueueTextureLoader
ResyncSerial == nextLoader <= SerialLoaders /\ Resync
EnterSerial ==
  /\ nextCall <= SerialEnter
  /\ \A c \in CallIds : call[c].pc \in {"idle", "resolved", "rejected"}
  /\ \E m \in Modes : EnterCall(m)

NextSerial ==
  \/ QueueSerial
  \/ RefreshTexture
  \/ ResyncSerial
  \/ \E l \in LoaderIds : LoaderResolves(l)
  \/ \E l \in LoaderIds : LoaderRejects(l)
  \/ EnterSerial
  \/ \E s \in SessionIds : EndEvent(s)
  \/ \E c \in CallIds : RequestResolves(c)
  \/ \E c \in CallIds : RequestRejects(c)
  \/ \E c \in CallIds : SetSessionResolves(c)
  \/ \E c \in CallIds : SetSessionRejects(c)

SpecSerial == Init /\ [][NextSerial]_vars

\* one composite tile request
InitTile == BoardIdle /\ AnimIdle /\ TileIdle /\ AppIdle /\ DetectIdle
SpecTile == InitTile /\ [][NextTile]_vars

\* the capability probes of a host
InitDetect == InitBoard /\ AnimIdle /\ TileIdle /\ AppIdle /\ DetectIdle
SpecDetect == InitDetect /\ [][NextDetect]_vars

\* the App: its timeline, its map, the era effect and the resync effect
InitAppSpec == BoardIdle /\ InitAppAnim /\ TileIdle /\ InitApp /\ DetectIdle

\* era changes and the display frames that follow them
SelectEraFade == nextLoader <= EraLoaders /\ \E i \in 0..(MaxEras - 1) : SelectEra(i)
FrameFade == \E d \in FrameDeltas : now + d <= EraTime /\ DisplayFrame(d)

NextEra ==
  \/ \E eras \in Timelines : TimelineLoaded(eras)
  \/ MapLoad
  \/ SelectEraFade
  \/ FrameFade

InitEra == BoardIdle /\ InitAppAnim /\ TileIdle /\ AppIdle /\ DetectIdle
SpecEra == InitEra /\ [][NextEra]_vars

\* era changes, display frames and the rebuilds of the map, for a timeline of one
\* or two eras
TimelineRebuild == \E eras \in Timelines : Len(eras) <= 2 /\ TimelineLoaded(eras)
SpotRebuild == \E s \in Spots : onSpotSelect(s)
ViewportRebuild == nextLoader <= EraLoaders /\ ViewportClassChange

NextRebuild ==
  \/ TimelineRebuild
  \/ MapLoad
  \/ SelectEraFade
  \/ FrameFade
  \/ SpotRebuild
  \/ ViewportRebuild

SpecRebuild == InitEra /\ [][NextRebuild]_vars

\* what makes the App resync the board's texture
SelectEraSync == nextLoader <= SyncLoaders /\ \E i \in 0..(MaxEras - 1) : SelectEra(i)
ViewportSync == nextLoader <= SyncLoaders /\ ViewportClassChange
MoveEndSync == nextLoader <= SyncLoaders /\ MoveEnd

NextSync ==
  \/ \E eras \in Timelines : TimelineLoaded(eras)
  \/ MapLoad
  \/ SelectEraSync
  \/ \E s \in Spots : onSpotSelect(s)
  \/ ViewportSync
  \/ \E v \in Views : Move(v)
  \/ MoveEndSync

SpecSync == InitAppSpec /\ [][NextSync]_vars

\* the requests the App builds while the map is moved and the viewport class changes
TimelineZoom == \E eras \in Timelines : Len(eras) = 1 /\ TimelineLoaded(eras)
ViewportZoom == nextLoader <= ZoomLoaders /\ ViewportClassChange
MoveEndZoom == nextLoader <= ZoomLoaders /\ MoveEnd

NextZoom ==
  \/ TimelineZoom
  \/ MapLoad
  \/ ViewportZoom
  \/ \E v \in Views : Move(v)
  \/ MoveEndZoom

SpecZoom == InitAppSpec /\ [][NextZoom]_vars

\* ============================================================== claims

SetMax(S) == CHOOSE x \in S : \A y \in S : y <= x

\* C1: whatever the order in which loaders are queued, refreshed and settle, the
\* texture bound to the board is the one of the most recently queued loader among
\* those that produced a texture; a superseded request's texture never replaces a
\* newer request's texture.
C1_LatestLoaderWins ==
  currentTexture = SetMax({0} \cup {l \in LoaderIds : loader[l] = "ok"})

\* C2: a loader followed by another queueTextureLoader call, with no refreshTexture
\* call between the two, is never run and its texture is never bound; a refreshTexture
\* call runs the last queued loader and no other.
C2_OnlyLastQueuedRuns ==
  /\ \A l \in dropped : loader[l] = "idle" /\ currentTexture # l
  /\ ~refreshedOther

C2_Witness ==
  \E l \in LoaderIds : l > 1 /\ (l - 1) \in dropped /\ currentTexture = l

\* C5: once every session the manager obtained has ended, whatever enter() was
\* awaiting at that moment, the render loop is halted, the render surface is hidden
\* and there is no current session, until a new session is obtained.
C5_EndedMeansIdle ==
  ((\E s \in SessionIds : session[s].st = "ended")
     /\ (\A s \in SessionIds : session[s].st \in {"none", "ended"}))
  => (~loopOn /\ ~(shown /\ attached) /\ currentSession = 0)

\* C6: at most one session obtained by the manager is started and not yet ended.
C6_OneLiveSession ==
  Cardinality({s \in SessionIds : session[s].st \in {"active", "ending"}}) <= 1

\* C7: when a dispose() call returns, whatever the state it was called in and
\* however many calls came before, no error has escaped, there is no current
\* session and the render loop is stopped.
C7_DisposeLeavesIdle ==
  justDisposed => (currentSession = 0 /\ ~loopOn /\ uncaught = {})

C7_Witness ==
  /\ justDisposed
  /\ disposeCount >= 2
  /\ \E s \in SessionIds : session[s].st \in {"ending", "ended"}
  /\ currentTexture # 0

\* C8: an enter() call for a mode the host does not support never obtains a session
\* and never resolves: it can only end rejected.
C8_NoWrongMode ==
  \A c \in CallIds :
    (call[c].pc # "idle" /\ call[c].mode \notin supported) =>
      /\ call[c].pc \in {"awaitEnd", "awaitRequest", "rejected"}
      /\ call[c].failedAt \in {"none", "noxr", "end", "request"}
      /\ \A s \in SessionIds : session[s].st # "none" => session[s].mode \in supported

C8_Witness ==
  /\ supported = {"immersive-vr"}
  /\ \E c \in CallIds : /\ call[c].mode = "immersive-ar"
                        /\ call[c].pc = "rejected"
                        /\ call[c].failedAt = "request"
  /\ \A s \in SessionIds : session[s].st = "none"

\* C9: when the loader run by refreshTexture() rejects, the call resolves, an
\* enter() awaiting it goes on and resolves, no error escapes, and the bound
\* texture and the set of released textures are what they were.
C9_FailedRefreshKeepsTexture ==
  [][\A l \in LoaderIds :
       (loader[l] = "running" /\ loader'[l] = "failed") =>
         /\ currentTexture' = currentTexture
         /\ disposedTex' = disposedTex
         /\ refreshResult'[l] = "resolved"
         /\ uncaught' = uncaught
         /\ \A c \in CallIds :
              (call[c].pc = "awaitRefresh" /\ call[c].wait = l) =>
                (call'[c].pc = "resolved" /\ loopOn')]_vars

C9_Witness ==
  \E l \in LoaderIds, c \in CallIds :
    /\ loader[l] = "failed"
    /\ call[c].wait = l
    /\ call[c].pc = "resolved"
    /\ currentTexture # 0
    /\ currentTexture \notin disposedTex

\* C10 (as stated): a loader is run only while a session is current: a refresh
\* attempt made with no session leaves the loader in the slot.
C10_NoLoadWithoutSession == ~startedIdle

\* C10 (amended): a refresh attempt empties the slot whether or not a session is
\* current: the slot holds a loader only when one was queued since the last refresh
\* attempt, and a queued loader that was never run is in the slot or was queued over.
C10_RefreshEmptiesSlot ==
  /\ unrefreshed = 0 => pendingTextureLoader = 0
  /\ \A l \in LoaderIds :
       (l < nextLoader /\ loader[l] = "idle") => (l = pendingTextureLoader \/ l \in dropped)

\* resync ran with no session ever obtained: its texture is bound, the surface hidden
C10_Witness ==
  /\ nextSession = 1
  /\ currentSession = 0
  /\ nextLoader > 1
  /\ pendingTextureLoader = 0
  /\ currentTexture # 0
  /\ ~shown

\* C3: when the latest animateLayerOpacity call for a layer came while an animation
\* of that layer was in flight, the layer's opacity, once no frame of the layer is
\* pending any more, is that call's clamped target: the earlier animation wrote
\* nothing after it.
C3_SecondTargetWins ==
  \A L \in Layers :
    (overlapped[L] /\ FramesOf(L) = {}) => opacity[L] = lastTarget[L]

\* C4: every layer id has at most one pending frame callback, that frame is the
\* one the registry records for the layer, and no cancelled frame is pending or
\* recorded: a new animation replaces the previous one.
C4_OneAnimationPerLayer ==
  \A L \in Layers :
    /\ Cardinality(FramesOf(L)) <= 1
    /\ \A f \in FramesOf(L) : f.id = animations[L]
    /\ (animations[L] # 0 => FramesOf(L) # {})
    /\ \A x \in cancelled : x[1] # animations[L]

C4_Witness ==
  \E L \in Layers :
    /\ \E x \in cancelled : x[2] = L
    /\ FramesOf(L) # {}
    /\ opacity[L] # 0

C12_CellAtItsPosition ==
  tlPc = "resolved" =>
    LET span == Max2(1, tlOpts.tileSpan2 \div 2) IN
    \A row \in 0..(span - 1), col \in 0..(span - 1) :
      LET x == tlOpts.center[1] - (span \div 2) + col
          y == tlOpts.center[2] - (span \div 2) + row
          primary == [layer |-> tlOpts.layer, zoom |-> tlOpts.zoom, x |-> x, y |-> y,
                      extension |-> tlOpts.extension]
          fallback == [layer |-> tlOpts.fallbackLayer, zoom |-> tlOpts.zoom, x |-> x,
                       y |-> y, extension |-> tlOpts.fallbackExtension]
          drawn == canvas[<<col * 256, row * 256>>]
      IN /\ primary \in loaded => drawn.image = <<primary>>
         /\ (primary \notin loaded /\ tlOpts.fallbackLayer # "" /\ fallback \in loaded)
              => drawn.image = <<fallback>>
         /\ drawn.image \in {<<primary>>, <<fallback>>, << >>}

\* a 2 x 2 request with a fallback: one cell shows its primary image, another its
\* fallback image, a third the placeholder
C12_Witness ==
  /\ tlPc = "resolved"
  /\ Cardinality(DOMAIN cell) = 4
  /\ \E p, q, r \in DOMAIN canvas :
       /\ canvas[p].image # << >> /\ canvas[p].image[1].layer = tlOpts.layer
       /\ canvas[q].image # << >> /\ canvas[q].image[1].layer = tlOpts.fallbackLayer
       /\ canvas[r].image = << >> /\ canvas[r].fill = "#1e293b"

\* C13: the calls an era effect makes are exactly one per era layer and one per
\* declared fallback layer: era j's layer is asked for 1 when j is the selected
\* index and for 0 otherwise, its fallback layer for 0.65 when selected and for 0
\* otherwise, and the fallback layer of an era that declares none is not asked for.
C13_OneTargetPerEraLayer ==
  requests # << >> =>
    LET Calls(L) == {k \in 1..Len(requests) : requests[k][1] = L}
        Asked(L, t) == \E k \in 1..Len(requests) : requests[k] = <<L, t>>
        n == Len(timeline)
    IN /\ \A j \in 1..n :
            /\ Cardinality(Calls(layerIdForEra(timeline[j].id))) = 1
            /\ Asked(layerIdForEra(timeline[j].id),
                     IF j - 1 = selectedEraIndex THEN 10000 ELSE 0)
            /\ IF timeline[j].fallbackLayer
                 THEN /\ Cardinality(Calls(fallbackLayerIdForEra(timeline[j].id))) = 1
                      /\ Asked(fallbackLayerIdForEra(timeline[j].id),
                               IF j - 1 = selectedEraIndex THEN 6500 ELSE 0)
                 ELSE Calls(fallbackLayerIdForEra(timeline[j].id)) = {}
       /\ Len(requests) = n + Cardinality({j \in 1..n : timeline[j].fallbackLayer})

\* eras a, b (with a fallback), c and index 1 selected by an era change
C13_Witness ==
  /\ Len(timeline) = 3
  /\ timeline[2].fallbackLayer
  /\ selectedEraIndex = 1
  /\ nextLoader > 2
  /\ requests = <<(<<"era-a", 0>>), (<<"era-b", 10000>>), (<<"era-b-fallback", 6500>>),
                  (<<"era-c", 0>>)>>

\* C17: once the map has loaded, the coastline overlay's fill and line opacities
\* are 0.18 + 0.22 r and 0.4 + 0.6 r with r = 1 - index/(total - 1) when there is
\* more than one era: 0.40 and 1.0 at index 0, 0.18 and 0.4 at the last index, and
\* strictly smaller after a change to a larger index; with one era they are 0.25
\* and 0.9.
C17_CoastlineOpacity ==
  [][LET t == Len(timeline')
         i == selectedEraIndex'
         fill == oldSea'.fill
         line == oldSea'.line
     IN /\ (mapLoaded' /\ t > 1) =>
             /\ fill[1] * 100 * (t - 1) = fill[2] * (18 * (t - 1) + 22 * ((t - 1) - i))
             /\ line[1] * 10 * (t - 1) = line[2] * (4 * (t - 1) + 6 * ((t - 1) - i))
             /\ i = 0 => (fill[1] * 100 = 40 * fill[2] /\ line[1] = line[2])
             /\ i = t - 1 => (fill[1] * 100 = 18 * fill[2] /\ line[1] * 10 = 4 * line[2])
        /\ (mapLoaded' /\ t = 1) =>
             (fill[1] * 100 = 25 * fill[2] /\ line[1] * 10 = 9 * line[2])
        /\ (mapLoaded /\ i > selectedEraIndex) =>
             /\ fill[1] * oldSea.fill[2] < oldSea.fill[1] * fill[2]
             /\ line[1] * oldSea.line[2] < oldSea.line[1] * line[2]]_vars

\* three eras, the index taken from 0 to 1 and on to 2
C17_Witness ==
  /\ Len(timeline) = 3
  /\ mapLoaded
  /\ selectedEraIndex = 2
  /\ nextLoader = 4
  /\ oldSea.fill[1] * 100 = 18 * oldSea.fill[2]
  /\ oldSea.line[1] * 10 = 4 * oldSea.line[2]

\* C20: once the timeline and the map exist (the board does from the start), every
\* change of the era index and every moveend event of the current map queues a
\* loader built from the map's center and bounded zoom and the selected era at that
\* moment, and runs it.
C20_TriggersResync ==
  [][((timeline # << >> /\ mapRef # 0) /\
       (moveends' # moveends \/ selectedEraIndex' # selectedEraIndex)) =>
        /\ nextLoader' = nextLoader + 1
        /\ loader'[nextLoader] = "running"
        /\ lastQueued'.center = view'.center
        /\ lastQueued'.era = timeline[selectedEraIndex' + 1].id]_vars

\* C14: detectSupportedModes() never rejects; without an XR facility it returns
\* the empty set, and otherwise exactly the modes whose own probe reported support,
\* a probe that rejected counting as no support.
C14_DetectNeverFails ==
  /\ detectPc # "rejected"
  /\ detectPc = "resolved" =>
       detected = IF xrPresent THEN {m \in Modes : probe[m] = "true"} ELSE {}

\* the AR probe rejected, the VR probe reported support
C14_Witness ==
  /\ detectPc = "resolved"
  /\ probe["immersive-ar"] = "error"
  /\ probe["immersive-vr"] = "true"
  /\ detected = {"immersive-vr"}

\* C15: a call animate(L, t) for an existing layer whose opacity is less than
\* 0.001 away from clamp(t, 0, 1) writes clamp(t, 0, 1) to the layer within the
\* call, requests no frame and records nothing in the registry.
C15_NearTargetWritesAtOnce ==
  [][\A L \in Layers, t \in Targets :
       LET ct == IF t < 0 THEN 0 ELSE IF t > 10000 THEN 10000 ELSE t
           d == IF opacity[L] < ct THEN ct - opacity[L] ELSE opacity[L] - ct
       IN (animateLayerOpacity(L, t) /\ L \in mapLayers /\ d < 10) =>
            /\ opacity'[L] = ct
            /\ frames' = frames
            /\ nextFrame' = nextFrame
            /\ animations' = animations]_vars

\* a layer faded in to 1 was then asked for 0.9995
C15_Witness ==
  \E L \in Layers :
    /\ animCalls = 2
    /\ lastTarget[L] = 9995
    /\ opacity[L] = 9995
    /\ frames = {}
    /\ animations[L] = 0

\* C16: while the board is not disposed, a texture that is applied becomes the
\* bound one, and once a texture was applied the bound texture is an applied one
\* that was never released, every other applied texture was released exactly once,
\* and no texture was released without having been bound.
C16_OneBoundTexture ==
  [][/\ \A l \in LoaderIds : (loader[l] # "ok" /\ loader'[l] = "ok") => currentTexture' = l
     /\ LET applied == {l \in LoaderIds : loader'[l] = "ok"} IN
        IF applied = {}
          THEN currentTexture' = 0 /\ \A l \in LoaderIds : releaseCount'[l] = 0
          ELSE /\ currentTexture' \in applied
               /\ \A l \in LoaderIds :
                    releaseCount'[l] = IF l \in applied /\ l # currentTexture' THEN 1 ELSE 0]_vars

\* a second texture replaced the first
C16_Witness ==
  /\ loader[1] = "ok"
  /\ loader[2] = "ok"
  /\ \E l \in {1, 2} : currentTexture = l /\ releaseCount[l] = 0 /\ releaseCount[3 - l] = 1

\* C18: with enter() calls made one at a time, a session the manager obtained and
\* that has not ended is the current session from the moment it is obtained, and
\* once its enter() call has completed the render loop runs and the surface is
\* shown: the end handling of an earlier session undoes none of this.
C18_NewSessionUndisturbed ==
  \A c \in CallIds :
    (/\ call[c].pc \in {"awaitSetSession", "awaitRefresh", "resolved"}
     /\ call[c].sess # 0
     /\ session[call[c].sess].st \in {"active", "ending"}) =>
      /\ currentSession = call[c].sess
      /\ call[c].pc = "resolved" => (loopOn /\ shown)

\* the first session ended and its end listener ran; the second enter() completed
C18_Witness ==
  /\ session[1].st = "ended"
  /\ session[1].listener
  /\ session[2].st = "active"
  /\ \E c \in CallIds : c > 1 /\ call[c].pc = "resolved" /\ call[c].sess = 2
  /\ currentSession = 2
  /\ loopOn
  /\ shown

\* C19: when the latest enter() call has failed because the host has no XR
\* facility or because requestSession rejected, there is no current session, the
\* render loop is not running and the surface is hidden (stated here for the runs
\* in which renderer.xr.setSession never rejected).
C19_FailedEnterLeavesIdle ==
  (\A c \in CallIds : call[c].failedAt # "setSession") =>
    \A c \in CallIds :
      (/\ nextCall = c + 1
       /\ call[c].pc = "rejected"
       /\ call[c].failedAt \in {"noxr", "request"}) =>
        (currentSession = 0 /\ ~loopOn /\ ~shown)

\* C21: the composite loader has resolved only when every one of its span x span
\* cells has settled, with an image that loaded or with none after every url of the
\* cell failed; while any cell fetch is outstanding the call is pending and nothing
\* is drawn over the background, whatever the order in which the fetches complete.
C21_ResolvesAfterEveryCell ==
  LET span == Max2(1, tlOpts.tileSpan2 \div 2)
      Outstanding == {c \in DOMAIN cell : cell[c].settled = "pending"}
  IN /\ tlPc = "resolved" =>
          /\ DOMAIN cell = (0..(span - 1)) \X (0..(span - 1))
          /\ Outstanding = {}
          /\ \A c \in DOMAIN cell :
               /\ cell[c].settled = "image" => attempts[c][Len(attempts[c])] \in loaded
               /\ cell[c].settled = "null" =>
                    /\ \A k \in 1..Len(attempts[c]) : attempts[c][k] \in failed
                    /\ Len(attempts[c]) = IF tlOpts.fallbackLayer # "" THEN 2 ELSE 1
     /\ (tlPc = "loading" /\ Outstanding # {}) =>
          \A p \in DOMAIN canvas : canvas[p] = [fill |-> "#0f172a", image |-> << >>]

\* a 2 x 2 request resolved with a primary image, a fallback image and two cells
\* without an image
C21_Witness ==
  /\ tlPc = "resolved"
  /\ Cardinality(DOMAIN cell) = 4
  /\ cell[<<0, 0>>].settled = "null"
  /\ cell[<<1, 1>>].settled = "null"
  /\ cell[<<0, 1>>].settled = "image" /\ Len(attempts[<<0, 1>>]) = 1
  /\ cell[<<1, 0>>].settled = "image" /\ Len(attempts[<<1, 0>>]) = 2

C23_AnimationTerminates ==
  /\ [][\A f \in frames :
          (Step(f) /\ now - f.startTime >= 350) =>
            /\ opacity'[f.layerId] = f.clampedTarget
            /\ animations'[f.layerId] = 0
            /\ frames' = frames \ {f}
            /\ nextFrame' = nextFrame]_vars
  /\ \A L \in Layers :
       (\E f \in frames : f.layerId = L)
         ~> (\/ /\ \A f \in frames : f.layerId # L
                 /\ animations[L] = 0
                 /\ opacity[L] = lastTarget[L]
             \/ overlapped[L])

\* a fade to 0.65 that was not disturbed has ended, after more than one step
C23_Witness ==
  \E L \in Layers :
    /\ animCalls = 1
    /\ lastTarget[L] = 6500
    /\ opacity[L] = 6500
    /\ animations[L] = 0
    /\ frames = {}
    /\ nextFrame > 2
    /\ now >= 350

\* C24: a call animate(L, t) and every frame step of L's animation leave the
\* opacity, the registry entry and the pending frames of every other layer as they
\* were, whatever the order in which the frame steps of the layers run.
C24_OtherLayersUntouched ==
  [][\A L \in Layers :
       ((\E t \in Targets : animateLayerOpacity(L, t))
          \/ (\E f \in frames : f.layerId = L /\ Step(f))) =>
         \A K \in Layers \ {L} :
           /\ opacity'[K] = opacity[K]
           /\ animations'[K] = animations[K]
           /\ {f \in frames' : f.layerId = K} = {f \in frames : f.layerId = K}]_vars

\* two layers fade at once: one has ended while the other is still under way
C24_Witness ==
  /\ animCalls = 2
  /\ opacity["era-a"] = lastTarget["era-a"]
  /\ lastTarget["era-a"] > 0
  /\ animations["era-a"] = 0
  /\ animations["era-b"] # 0
  /\ opacity["era-b"] > 0
  /\ opacity["era-b"] < lastTarget["era-b"]
  /\ \E f \in frames : f.layerId = "era-b" /\ f.startTime < 350

\* C25: every loader the App queues asks for an integer zoom within 11..16 and a
\* tile-block span of 2 when the viewport is a constrained one, and for an integer
\* zoom within 12..17 and a span of 3 otherwise, whatever the zoom of the map: a
\* zoom inside the range is rounded, one outside is taken to the nearer end.
C25_ZoomAndSpanBounds ==
  [][nextLoader' # nextLoader =>
       LET lo == IF isMobileViewport' THEN 11 ELSE 12
           hi == IF isMobileViewport' THEN 16 ELSE 17
           z2 == view'.zoom2
       IN /\ lastQueued'.zoom \in lo..hi
          /\ lastQueued'.tileSpan = IF isMobileViewport' THEN 2 ELSE 3
          /\ z2 < 2 * lo => lastQueued'.zoom = lo
          /\ z2 > 2 * hi => lastQueued'.zoom = hi
          /\ (2 * lo <= z2 /\ z2 <= 2 * hi) =>
               (2 * lastQueued'.zoom - z2) \in {0, 1}]_vars

\* on a constrained viewport the map was zoomed out to 9.5: the request asks for 11
C25_Witness ==
  /\ isMobileViewport
  /\ view.zoom2 = 19
  /\ lastQueued.era # ""
  /\ lastQueued.zoom = 11
  /\ lastQueued.tileSpan = 2
  /\ moveends > 0

\* C26: whenever the timeline is loaded, the map is ready and no opacity animation
\* is in flight, the selected era's layer has opacity 1 and its fallback layer 0.65,
\* and every other era layer and fallback layer has opacity 0.
C26_SelectedEraShown ==
  (/\ timeline # << >>
   /\ isMapReady
   /\ mapRef # 0
   /\ mapLoaded
   /\ frames = {}
   /\ \A L \in DOMAIN animations : animations[L] = 0) =>
    \A j \in 1..Len(timeline) :
      /\ opacity[layerIdForEra(timeline[j].id)] =
           (IF j - 1 = selectedEraIndex THEN 10000 ELSE 0)
      /\ timeline[j].fallbackLayer =>
           opacity[fallbackLayerIdForEra(timeline[j].id)] =
             (IF j - 1 = selectedEraIndex THEN 6500 ELSE 0)

\* C27: once dispose() has run, no step sets a current session, starts the render
\* loop, shows the render surface or binds a texture: an enter() or a
\* refreshTexture() that was in flight re-establishes nothing when it resumes.
C27_NothingAfterDispose ==
  [][disposeCount > 0 =>
       /\ currentSession' = 0
       /\ ~loopOn'
       /\ (shown' => shown)
       /\ currentTexture' = currentTexture]_vars

\* C28: no loader is called more than once and none is called without having been
\* queued, however the refreshTexture() calls of the App and of enter() overlap; a
\* call that runs a loader leaves the slot empty, and a call that finds the slot
\* empty calls no loader and leaves the board as it was.
C28_LoaderRunsOnce ==
  [][/\ \A l \in LoaderIds :
          /\ invocations'[l] <= 1
          /\ invocations'[l] > invocations[l] =>
               (pendingTextureLoader' = 0 /\ (l = pendingTextureLoader \/ l = nextLoader))
     /\ (RefreshTexture /\ pendingTextureLoader = 0) =>
          /\ invocations' = invocations
          /\ loader' = loader
          /\ UNCHANGED <<pendingTextureLoader, currentTexture, currentSession, loopOn,
                         shown, disposedTex, releaseCount, session, call>>]_vars

\* two loaders are running at once, each called once: the one enter() awaits and
\* the one of a later resync
C28_Witness ==
  /\ loader[1] = "running"
  /\ loader[2] = "running"
  /\ invocations[1] = 1
  /\ invocations[2] = 1
  /\ pendingTextureLoader = 0
  /\ \E c \in CallIds : call[c].pc = "awaitRefresh" /\ call[c].wait = 1

\* C29: every pending animation step belongs to the map that exists: when a map is
\* removed, the frames of all its animations are cancelled and the registry is
\* emptied, so that no step is left to run on the removed map.
C29_NoStepAfterTeardown ==
  [][/\ \A f \in frames' : f.map = mapRef'
     /\ mapRef' # mapRef =>
          /\ frames' = {}
          /\ \A L \in DOMAIN animations : animations'[L] = 0
          /\ \A f \in frames : \E x \in cancelled' : x[1] = f.id]_vars

\* the map was rebuilt while two layers were fading
C29_Witness ==
  /\ mapRef = 2
  /\ now > 0
  /\ frames = {}
  /\ \A L \in DOMAIN animations : animations[L] = 0
  /\ \E x, y \in cancelled : x[2] # y[2] /\ x[1] + 1 = nextFrame /\ y[1] + 2 = nextFrame

====
